---- MODULE Spec2Model ----
(***************************************************************************)
(* Model of phonikud-rs: PhonikudModel::run_inference (src/src/model.rs)   *)
(* and the Phonikud facade (src/src/lib.rs).                                *)
(*                                                                         *)
(* A string is a sequence of Unicode code points (decimal).  Offsets are   *)
(* BYTE offsets into the UTF-8 encoding, as the tokenizer returns them and *)
(* as Rust's str slicing takes them: code points below 128 take one byte,  *)
(* the Hebrew block takes two.  An f32 is a record [nan, v].               *)
(* The tokenizer and the ONNX session are external: each specification     *)
(* below plugs a stub provider that draws their outputs from a bounded     *)
(* family.                                                                 *)
(***************************************************************************)
EXTENDS Integers, Sequences, FiniteSets, TLC

VARIABLES
    text,                   \* argument `text` of run_inference
    mark_matres_lectionis,  \* argument: Option<&str>
    clean_text,             \* remove_nikud(text)
    offsets,                \* encoding.get_offsets(): byte spans <<start, end>>
    nikud_logits,           \* outputs[0], one row per token
    shin_logits,            \* outputs[1], one row per token
    additional_logits,      \* outputs[2], one row of 3 per token
    nikud_preds,            \* Vec<usize>
    shin_preds,             \* Vec<usize>
    stress_preds,           \* Vec<bool>
    vocal_shva_preds,       \* Vec<bool>
    prefix_preds,           \* Vec<bool>
    result,                 \* the String being built
    prev_index,             \* cursor (byte offset)
    idx,                    \* loop index into offsets (0-based, as in the code)
    pc,                     \* position inside run_inference
    outcome                 \* "none" while running, then "Ok" | "Err" | "Panic"

vars == <<text, mark_matres_lectionis, clean_text, offsets, nikud_logits,
          shin_logits, additional_logits, nikud_preds, shin_preds,
          stress_preds, vocal_shva_preds, prefix_preds, result, prev_index,
          idx, pc, outcome>>

----------------------------------------------------------------------------
(* Bounds of the model                                                      *)

MaxLen == 2        \* longest input text, in characters
MaxTokens == 2     \* longest span sequence of the free tokenizer stub

----------------------------------------------------------------------------
(* Constants of model.rs, lines 204-235                                     *)

MAT_LECT_TOKEN == <<60, 77, 65, 84, 95, 76, 69, 67, 84, 62>>   \* "<MAT_LECT>"

NIKUD_CLASSES ==
    << <<>>,
       MAT_LECT_TOKEN,
       <<1468>>,           \* 05bc dagesh
       <<1456>>,           \* 05b0 shva
       <<1457>>,           \* 05b1 hataf segol
       <<1458>>,           \* 05b2 hataf patah
       <<1459>>,           \* 05b3 hataf qamats
       <<1460>>,           \* 05b4 hiriq
       <<1461>>,           \* 05b5 tsere
       <<1462>>,           \* 05b6 segol
       <<1463>>,           \* 05b7 patah
       <<1464>>,           \* 05b8 qamats
       <<1465>>,           \* 05b9 holam
       <<1466>>,           \* 05ba holam haser
       <<1467>>,           \* 05bb qubuts
       <<1468, 1456>>, <<1468, 1457>>, <<1468, 1458>>, <<1468, 1459>>,
       <<1468, 1460>>, <<1468, 1461>>, <<1468, 1462>>, <<1468, 1463>>,
       <<1468, 1464>>, <<1468, 1465>>, <<1468, 1466>>, <<1468, 1467>>,
       <<1479>>,           \* 05c7 qamats qatan
       <<1468, 1479>> >>   \* dagesh + qamats qatan

SHIN_CLASSES == << <<1473>>, <<1474>> >>     \* 05c1 shin, 05c2 sin
MATRES_LETTERS == {1488, 1493, 1497}         \* alef, vav, yod
ALEF_ORD == 1488
TAF_ORD == 1514
STRESS_CHAR == <<1451>>                      \* 05ab
VOCAL_SHVA_CHAR == <<1469>>                  \* 05bd
PREFIX_CHAR == <<124>>                       \* "|"
SHIN_LETTER == 1513                          \* the literal 'ש' of line 158

\* The bounds of the character class of remove_nikud's pattern.
NIKUD_RANGE_LO == 1424                       \* 0590
NIKUD_RANGE_HI == 1479                       \* 05C7
PIPE == 124                                  \* the '|' inside the class

----------------------------------------------------------------------------
(* Option<&str>                                                             *)

None == [some |-> FALSE, val |-> <<>>]
Some(m) == [some |-> TRUE, val |-> m]

(* f32                                                                      *)
F(v) == [nan |-> FALSE, v |-> v]
NaN == [nan |-> TRUE, v |-> 0]

\* f32::partial_cmp
PartialCmp(a, b) ==
    IF a.nan \/ b.nan THEN "None"
    ELSE IF a.v < b.v THEN "Less"
    ELSE IF a.v > b.v THEN "Greater"
    ELSE "Equal"

\* x > 0.0 (false for NaN)
GtZero(x) == ~x.nan /\ x.v > 0

----------------------------------------------------------------------------
(* UTF-8 and str slicing                                                    *)

\* char::len_utf8 for the code points the model uses (all below U+0800)
ByteLen(c) == IF c < 128 THEN 1 ELSE 2

\* byte offset at which character number k+1 starts (k characters precede it)
RECURSIVE ByteOffset(_, _)
ByteOffset(t, k) == IF k = 0 THEN 0 ELSE ByteOffset(t, k - 1) + ByteLen(t[k])

StrLen(t) == ByteOffset(t, Len(t))

IsCharBoundary(t, b) == \E k \in 0..Len(t) : ByteOffset(t, k) = b

\* &t[s..e] for s <= e on character boundaries
Slice(t, s, e) ==
    LET ks == CHOOSE k \in 0..Len(t) : ByteOffset(t, k) = s
        ke == CHOOSE k \in 0..Len(t) : ByteOffset(t, k) = e
    IN  SubSeq(t, ks + 1, ke)

\* whether &t[s..e] panics
SlicePanics(t, s, e) ==
    s > e \/ ~IsCharBoundary(t, s) \/ ~IsCharBoundary(t, e)

----------------------------------------------------------------------------
(* model.rs 237-249                                                         *)

is_hebrew_letter(ch) == ALEF_ORD <= ch /\ ch <= TAF_ORD

is_matres_letter(ch) == ch \in MATRES_LETTERS

\* the character class [\u{0590}-\u{05C7}|]
InNikudPattern(c) ==
    (NIKUD_RANGE_LO <= c /\ c <= NIKUD_RANGE_HI) \/ c = PIPE

NotInNikudPattern(c) == ~InNikudPattern(c)

\* Regex::replace in place of replace_all: only the first match is deleted
remove_nikud_first(t) ==
    LET I == {i \in 1..Len(t) : InNikudPattern(t[i])}
    IN  IF I = {} THEN t
        ELSE LET m == CHOOSE i \in I : \A j \in I : i <= j
             IN  SubSeq(t, 1, m - 1) \o SubSeq(t, m + 1, Len(t))

\* replace_all(text, ""): every match is deleted, the rest kept in order
remove_nikud(t) == SelectSeq(t, NotInNikudPattern)

----------------------------------------------------------------------------
(* Prediction decoding, model.rs 76-119                                     *)

\* Iterator::max_by over (index, value): the accumulator is kept only when the
\* comparison says Greater; partial_cmp(..).unwrap() panics on None.
\* `best` and `k` are 1-based positions; the returned idx is the 0-based class.
RECURSIVE MaxBy(_, _, _)
MaxBy(row, best, k) ==
    IF k > Len(row) THEN [panic |-> FALSE, idx |-> best - 1]
    ELSE LET c == PartialCmp(row[best], row[k])
         IN  IF c = "None" THEN [panic |-> TRUE, idx |-> 0]
             ELSE MaxBy(row, IF c = "Greater" THEN best ELSE k, k + 1)

\* .iter().enumerate().max_by(..).unwrap().0
Argmax(row) ==
    IF Len(row) = 0 THEN [panic |-> TRUE, idx |-> 0] ELSE MaxBy(row, 1, 2)

\* .outer_iter().map(argmax).collect()
ArgmaxRows(rows) ==
    [panic |-> \E i \in 1..Len(rows) : Argmax(rows[i]).panic,
     preds |-> [i \in 1..Len(rows) |-> Argmax(rows[i]).idx]]

\* .slice(s![0, .., col]).iter().map(|&x| x > 0.0).collect()
Threshold(rows, col) == [i \in 1..Len(rows) |-> GtZero(rows[i][col + 1])]

----------------------------------------------------------------------------
(* Reconstruction, model.rs 126-195: the pieces pushed after a letter.      *)
(* Each returns [panic, out].                                               *)

Pushed(s) == [panic |-> FALSE, out |-> s]
IndexPanic == [panic |-> TRUE, out |-> <<>>]

ShinMarkAnyLetter(char, i, preds) ==
    IF i < Len(preds)
    THEN IF preds[i + 1] < Len(SHIN_CLASSES)
         THEN Pushed(SHIN_CLASSES[preds[i + 1] + 1])
         ELSE IndexPanic
    ELSE Pushed(<<>>)

\* lines 157-161
ShinMark(char, i, preds) ==
    IF char = SHIN_LETTER /\ i < Len(preds)
    THEN IF preds[i + 1] < Len(SHIN_CLASSES)
         THEN Pushed(SHIN_CLASSES[preds[i + 1] + 1])
         ELSE IndexPanic
    ELSE Pushed(<<>>)

NikudMarkAnyLetter(char, i, preds, mark) ==
    IF i < Len(preds)
    THEN IF preds[i + 1] < Len(NIKUD_CLASSES)
         THEN LET nikud == NIKUD_CLASSES[preds[i + 1] + 1]
              IN  IF nikud = MAT_LECT_TOKEN
                  THEN IF mark.some THEN Pushed(mark.val) ELSE Pushed(<<>>)
                  ELSE Pushed(nikud)
         ELSE IndexPanic
    ELSE Pushed(<<>>)

\* lines 163-179
NikudMark(char, i, preds, mark) ==
    IF i < Len(preds)
    THEN IF preds[i + 1] < Len(NIKUD_CLASSES)
         THEN LET nikud == NIKUD_CLASSES[preds[i + 1] + 1]
              IN  IF nikud = MAT_LECT_TOKEN
                  THEN IF is_matres_letter(char) /\ mark.some
                       THEN Pushed(mark.val)
                       ELSE Pushed(<<>>)
                  ELSE Pushed(nikud)
         ELSE IndexPanic
    ELSE Pushed(<<>>)

\* lines 181-194: one flagged mark
FlagMark(i, preds, m) ==
    IF i < Len(preds) /\ preds[i + 1] THEN m ELSE <<>>

LetterMarksShvaFirst(char, i, shin, nikud, stress, shva, prefix, mark) ==
    LET s == ShinMark(char, i, shin)
        n == NikudMark(char, i, nikud, mark)
    IN  IF s.panic \/ n.panic THEN IndexPanic
        ELSE Pushed(s.out \o n.out
                    \o FlagMark(i, shva, VOCAL_SHVA_CHAR)
                    \o FlagMark(i, stress, STRESS_CHAR)
                    \o FlagMark(i, prefix, PREFIX_CHAR))

\* lines 157-194: everything pushed after the base letter, in program order
LetterMarks(char, i, shin, nikud, stress, shva, prefix, mark) ==
    LET s == ShinMark(char, i, shin)
        n == NikudMark(char, i, nikud, mark)
    IN  IF s.panic \/ n.panic THEN IndexPanic
        ELSE Pushed(s.out \o n.out
                    \o FlagMark(i, stress, STRESS_CHAR)
                    \o FlagMark(i, shva, VOCAL_SHVA_CHAR)
                    \o FlagMark(i, prefix, PREFIX_CHAR))

IsSingleCharAtLeastOne(token_text) == Len(token_text) >= 1

\* line 141: token_text.chars().count() != 1, negated
IsSingleChar(token_text) == Len(token_text) = 1

\* One iteration of the loop of lines 126-195 on span <<start, end>> at index
\* i, from (res, prev): [result, prev_index, panic].
LoopBody(t, i, start, end, res, prev, shin, nikud, stress, shva, prefix, mark) ==
    IF start > prev /\ SlicePanics(t, prev, start)
    THEN [result |-> res, prev_index |-> prev, panic |-> TRUE]
    ELSE
    LET r1 == IF start > prev THEN res \o Slice(t, prev, start) ELSE res
    IN  IF end <= start
        THEN [result |-> r1, prev_index |-> prev, panic |-> FALSE]
        ELSE IF SlicePanics(t, start, end)
        THEN [result |-> r1, prev_index |-> prev, panic |-> TRUE]
        ELSE
        LET token_text == Slice(t, start, end)
        IN  IF ~IsSingleChar(token_text)
            THEN [result |-> r1 \o token_text, prev_index |-> end,
                  panic |-> FALSE]
            ELSE
            LET char == token_text[1]
            IN  IF ~is_hebrew_letter(char)
                THEN [result |-> r1 \o <<char>>, prev_index |-> end,
                      panic |-> FALSE]
                ELSE
                LET m == LetterMarks(char, i, shin, nikud, stress, shva,
                                     prefix, mark)
                IN  [result |-> r1 \o <<char>> \o m.out,
                     prev_index |-> end, panic |-> m.panic]

----------------------------------------------------------------------------
(* run_inference as a state machine                                         *)

InitWith(texts, marks) ==
    /\ text \in texts
    /\ mark_matres_lectionis \in marks
    /\ clean_text = <<>>
    /\ offsets = <<>>
    /\ nikud_logits = <<>>
    /\ shin_logits = <<>>
    /\ additional_logits = <<>>
    /\ nikud_preds = <<>>
    /\ shin_preds = <<>>
    /\ stress_preds = <<>>
    /\ vocal_shva_preds = <<>>
    /\ prefix_preds = <<>>
    /\ result = <<>>
    /\ prev_index = 0
    /\ idx = 0
    /\ pc = "clean"
    /\ outcome = "none"

\* line 38
Clean ==
    /\ pc = "clean"
    /\ clean_text' = remove_nikud(text)
    /\ pc' = "tokenize"
    /\ UNCHANGED <<text, mark_matres_lectionis, offsets, nikud_logits,
                   shin_logits, additional_logits, nikud_preds, shin_preds,
                   stress_preds, vocal_shva_preds, prefix_preds, result,
                   prev_index, idx, outcome>>

\* lines 41-52 and 122, the encoding being `spans`
TokenizeTo(spans) ==
    /\ pc = "tokenize"
    /\ offsets' = spans
    /\ pc' = "infer"
    /\ UNCHANGED <<text, mark_matres_lectionis, clean_text, nikud_logits,
                   shin_logits, additional_logits, nikud_preds, shin_preds,
                   stress_preds, vocal_shva_preds, prefix_preds, result,
                   prev_index, idx, outcome>>

\* lines 55-73, the session returning the three tensors
InferTo(nl, sl, al) ==
    /\ pc = "infer"
    /\ nikud_logits' = nl
    /\ shin_logits' = sl
    /\ additional_logits' = al
    /\ pc' = "decode"
    /\ UNCHANGED <<text, mark_matres_lectionis, clean_text, offsets,
                   nikud_preds, shin_preds, stress_preds, vocal_shva_preds,
                   prefix_preds, result, prev_index, idx, outcome>>

\* line 68: self.session.run(inputs)? returning the backend's error
InferFail ==
    /\ pc = "infer"
    /\ pc' = "done"
    /\ outcome' = "Err"
    /\ UNCHANGED <<text, mark_matres_lectionis, clean_text, offsets,
                   nikud_logits, shin_logits, additional_logits, nikud_preds,
                   shin_preds, stress_preds, vocal_shva_preds, prefix_preds,
                   result, prev_index, idx>>

\* lines 76-119
Decode ==
    /\ pc = "decode"
    /\ LET n == ArgmaxRows(nikud_logits)
           s == ArgmaxRows(shin_logits)
       IN  IF n.panic \/ s.panic
           THEN /\ pc' = "done"
                /\ outcome' = "Panic"
                /\ UNCHANGED <<nikud_preds, shin_preds, stress_preds,
                               vocal_shva_preds, prefix_preds>>
           ELSE /\ nikud_preds' = n.preds
                /\ shin_preds' = s.preds
                /\ stress_preds' = Threshold(additional_logits, 0)
                /\ vocal_shva_preds' = Threshold(additional_logits, 1)
                /\ prefix_preds' = Threshold(additional_logits, 2)
                /\ pc' = "loop"
                /\ UNCHANGED outcome
    /\ UNCHANGED <<text, mark_matres_lectionis, clean_text, offsets,
                   nikud_logits, shin_logits, additional_logits, result,
                   prev_index, idx>>

\* lines 126-195, one iteration
LoopStep ==
    /\ pc = "loop"
    /\ idx < Len(offsets)
    /\ LET b == LoopBody(clean_text, idx, offsets[idx + 1][1],
                         offsets[idx + 1][2], result, prev_index, shin_preds,
                         nikud_preds, stress_preds, vocal_shva_preds,
                         prefix_preds, mark_matres_lectionis)
       IN  IF b.panic
           THEN /\ pc' = "done"
                /\ outcome' = "Panic"
                /\ UNCHANGED <<result, prev_index, idx>>
           ELSE /\ result' = b.result
                /\ prev_index' = b.prev_index
                /\ idx' = idx + 1
                /\ UNCHANGED <<pc, outcome>>
    /\ UNCHANGED <<text, mark_matres_lectionis, clean_text, offsets,
                   nikud_logits, shin_logits, additional_logits, nikud_preds,
                   shin_preds, stress_preds, vocal_shva_preds, prefix_preds>>

\* lines 197-200
Finish ==
    /\ pc = "loop"
    /\ idx = Len(offsets)
    /\ IF SlicePanics(clean_text, prev_index, StrLen(clean_text))
       THEN /\ outcome' = "Panic"
            /\ UNCHANGED result
       ELSE /\ result' = result \o Slice(clean_text, prev_index,
                                         StrLen(clean_text))
            /\ outcome' = "Ok"
    /\ pc' = "done"
    /\ UNCHANGED <<text, mark_matres_lectionis, clean_text, offsets,
                   nikud_logits, shin_logits, additional_logits, nikud_preds,
                   shin_preds, stress_preds, vocal_shva_preds, prefix_preds,
                   prev_index, idx>>

----------------------------------------------------------------------------
(* Stub providers: the tokenizer (lines 41-44, 122) and the ONNX session    *)
(* (lines 68-73) are external; these are the outputs the model draws.       *)

\* all strings over alphabet A of at most n characters
Texts(A, n) == UNION {[1..k -> A] : k \in 0..n}

\* span sequences in ascending order over a text of len characters, as
\* character indices: every span has start <= end, and starts at or after the
\* end of the span before it; at most n spans
RECURSIVE SpanSeqs(_, _, _)
SpanSeqs(len, from, n) ==
    IF n = 0 THEN {<<>>}
    ELSE {<<>>} \cup
         UNION {{<<sp>> \o rest : rest \in SpanSeqs(len, sp[2], n - 1)} :
                sp \in {q \in (from..len) \X (from..len) : q[1] <= q[2]}}

\* character-index spans to the byte offsets the tokenizer reports
ToByteSpans(t, sp) ==
    [i \in 1..Len(sp) |-> <<ByteOffset(t, sp[i][1]), ByteOffset(t, sp[i][2])>>]

\* a tokenizer free to group, skip and insert empty spans
TokenizeAny ==
    \E sp \in SpanSeqs(Len(clean_text), 0, MaxTokens) :
        TokenizeTo(ToByteSpans(clean_text, sp))

\* a character-level tokenizer with special tokens: [CLS] and [SEP] carry the
\* span (0, 0), every character is its own span
CharSpans(t) ==
    <<<<0, 0>>>>
    \o [i \in 1..Len(t) |-> <<ByteOffset(t, i - 1), ByteOffset(t, i)>>]
    \o <<<<0, 0>>>>

TokenizeChars == TokenizeTo(CharSpans(clean_text))

\* a logits row of width w whose only maximum is class k (0-based)
OneHot(w, k) == [i \in 1..w |-> IF i = k + 1 THEN F(1) ELSE F(0)]

\* the width of a row able to score class k: the table's width, or more when
\* the network has more classes than the table
WidthFor(table, k) == IF k < Len(table) THEN Len(table) ELSE k + 1

NikudRow(p) == OneHot(WidthFor(NIKUD_CLASSES, p.nikud), p.nikud)
ShinRow(p) == OneHot(WidthFor(SHIN_CLASSES, p.shin), p.shin)
Logit(b) == IF b THEN F(1) ELSE F(0)
AuxRow(p) == <<Logit(p.stress), Logit(p.shva), Logit(p.prefix)>>

Pred(n, s, st, sh, pf) ==
    [nikud |-> n, shin |-> s, stress |-> st, shva |-> sh, prefix |-> pf]

\* the session returning, for every token, the row that decodes to p
InferSame(P) ==
    \E p \in P :
        InferTo([i \in 1..Len(offsets) |-> NikudRow(p)],
                [i \in 1..Len(offsets) |-> ShinRow(p)],
                [i \in 1..Len(offsets) |-> AuxRow(p)])

\* the session returning the row that decodes to p for token `at` (0-based)
\* and the row that decodes to d for every other token
InferAt(P, at, d) ==
    \E p \in P :
        InferTo([i \in 1..Len(offsets) |->
                     IF i = at + 1 THEN NikudRow(p) ELSE NikudRow(d)],
                [i \in 1..Len(offsets) |->
                     IF i = at + 1 THEN ShinRow(p) ELSE ShinRow(d)],
                [i \in 1..Len(offsets) |->
                     IF i = at + 1 THEN AuxRow(p) ELSE AuxRow(d)])

\* a row with score 1 at the classes of P, NaN at class n (none when n < 0)
\* and 0 elsewhere
TieRow(w, P, n) ==
    [i \in 1..w |-> IF i = n + 1 THEN NaN
                    ELSE IF (i - 1) \in P THEN F(1) ELSE F(0)]

TieClasses == {0, 1, 10, 28}
NaNPlaces == {-1, 0, 28}

NikudTieRows ==
    {TieRow(Len(NIKUD_CLASSES), P, n) :
        P \in {Q \in SUBSET TieClasses : Cardinality(Q) \in {1, 2}},
        n \in NaNPlaces}

ShinTieRows == [1..Len(SHIN_CLASSES) -> {NaN, F(0), F(1)}]

\* the session returning the same, arbitrary, rows for every token
InferTies ==
    \E nr \in NikudTieRows, sr \in ShinTieRows :
        InferTo([i \in 1..Len(offsets) |-> nr],
                [i \in 1..Len(offsets) |-> sr],
                [i \in 1..Len(offsets) |-> <<F(0), F(0), F(0)>>])

----------------------------------------------------------------------------
(* Specifications                                                           *)

MatresMarks == {None, Some(<<1455>>)}     \* 05af, as examples/mark_nikud_male.rs

\* -- Spec: any text, any ascending tokenization, a few predictions ---------
Alphabet == {49, 97, 1463, 1513}          \* '1', 'a', patah, shin

CoarsePreds ==
    {Pred(0, 0, FALSE, FALSE, FALSE),
     Pred(1, 0, TRUE, FALSE, FALSE),
     Pred(22, 1, TRUE, TRUE, TRUE)}

Init == InitWith(Texts(Alphabet, MaxLen), MatresMarks)

InferCoarse == InferSame(CoarsePreds)

Next ==
    \/ Clean
    \/ TokenizeAny
    \/ InferCoarse
    \/ InferFail
    \/ Decode
    \/ LoopStep
    \/ Finish

Spec == Init /\ [][Next]_vars

\* -- SpecLetter: one character, its own span, every prediction -------------
LetterAlphabet == {97, 1487, 1488, 1489, 1493, 1497, 1513, 1514, 1515}

NikudChoices == {0, 1, 10, 15, 29}
ShinChoices == {0, 1, 2}

FullPreds ==
    {Pred(n, s, st, sh, pf) :
        n \in NikudChoices, s \in ShinChoices,
        st \in BOOLEAN, sh \in BOOLEAN, pf \in BOOLEAN}

\* the prediction at the special tokens
Decoy == Pred(7, 1, TRUE, TRUE, TRUE)

InitLetter == InitWith({<<c>> : c \in LetterAlphabet}, MatresMarks)

InferLetter == InferAt(FullPreds, 1, Decoy)

NextLetter ==
    \/ Clean
    \/ TokenizeChars
    \/ InferLetter
    \/ Decode
    \/ LoopStep
    \/ Finish

SpecLetter == InitLetter /\ [][NextLetter]_vars

\* -- SpecUniform: Hebrew letters, one span each, one prediction for all ----
HebrewAlphabet == {1488, 1489, 1513}

UniformPreds ==
    {Pred(n, s, FALSE, FALSE, FALSE) : n \in {0, 10, 15, 28}, s \in {0, 1}}

InitUniform == InitWith(Texts(HebrewAlphabet, MaxLen), MatresMarks)

InferUniform == InferSame(UniformPreds)

NextUniform ==
    \/ Clean
    \/ TokenizeChars
    \/ InferUniform
    \/ Decode
    \/ LoopStep
    \/ Finish

SpecUniform == InitUniform /\ [][NextUniform]_vars

\* -- SpecDecode: rows with ties and NaN -----------------------------------
InitDecode == InitWith(Texts({1489, 1513}, MaxLen), {None})

NextDecode ==
    \/ Clean
    \/ TokenizeChars
    \/ InferTies
    \/ InferFail
    \/ Decode
    \/ LoopStep
    \/ Finish

SpecDecode == InitDecode /\ [][NextDecode]_vars

\* -- SpecClean: remove_nikud alone ----------------------------------------
CleanAlphabet == {97, 124, 1423, 1424, 1463, 1479, 1480, 1489}

InitClean == InitWith(Texts(CleanAlphabet, MaxLen), {None})

NextClean == Clean

SpecClean == InitClean /\ [][NextClean]_vars

----------------------------------------------------------------------------
(* Claims                                                                   *)

Chars(t) == {t[i] : i \in 1..Len(t)}

\* C1: whenever run_inference returns a string, that string with the injected
\* marks removed (all of them lie in the class remove_nikud deletes) is the
\* cleaned text: nothing dropped, duplicated or reordered.
C1_ReconstructionKeepsCleanText ==
    (pc = "done" /\ outcome = "Ok") => remove_nikud(result) = clean_text

\* The expected pieces after a single letter c decoded at token index i
\* (0-based), read off the decoded vectors.
ExpShin(c, i) == IF c = 1513 THEN SHIN_CLASSES[shin_preds[i + 1] + 1] ELSE <<>>

ExpNikud(c, i) ==
    IF nikud_preds[i + 1] = 1
    THEN IF c \in {1488, 1493, 1497} /\ mark_matres_lectionis.some
         THEN mark_matres_lectionis.val
         ELSE <<>>
    ELSE NIKUD_CLASSES[nikud_preds[i + 1] + 1]

ExpAux(i) ==
    (IF stress_preds[i + 1] THEN <<1451>> ELSE <<>>)
    \o (IF vocal_shva_preds[i + 1] THEN <<1469>> ELSE <<>>)
    \o (IF prefix_preds[i + 1] THEN <<124>> ELSE <<>>)

\* the state after a call on a one-letter text whose letter is token 1
LetterDone ==
    /\ pc = "done"
    /\ outcome = "Ok"
    /\ Len(clean_text) = 1
    /\ is_hebrew_letter(clean_text[1])
    /\ offsets = CharSpans(clean_text)

\* C2: after a single-character Hebrew-letter span the marks follow the base
\* letter in the order shin/sin dot, nikud, stress, vocal-shva, prefix; for
\* shin with a non-placeholder class and the three signals true the suffix is
\* exactly those five marks.
C2_MarkOrder ==
    LetterDone =>
        /\ result = <<clean_text[1]>> \o ExpShin(clean_text[1], 1)
                    \o ExpNikud(clean_text[1], 1) \o ExpAux(1)
        /\ (/\ clean_text[1] = 1513
            /\ nikud_preds[2] # 1
            /\ stress_preds[2] /\ vocal_shva_preds[2] /\ prefix_preds[2])
           => result = <<1513>> \o SHIN_CLASSES[shin_preds[2] + 1]
                       \o NIKUD_CLASSES[nikud_preds[2] + 1]
                       \o <<1451, 1469, 124>>

C2_Witness ==
    /\ LetterDone
    /\ clean_text = <<1513>>
    /\ nikud_preds[2] = 15
    /\ shin_preds[2] = 1
    /\ stress_preds[2] /\ vocal_shva_preds[2] /\ prefix_preds[2]
    /\ result = <<1513, 1474, 1468, 1456, 1451, 1469, 124>>

\* C3: with the matres-lectionis placeholder predicted for a single letter,
\* the nikud slot is empty on a letter other than alef, vav, yod; holds exactly
\* the caller's mark on alef, vav, yod when one was supplied; is empty when
\* none was supplied; and the placeholder text never reaches the output.
C3_MatresGating ==
    (LetterDone /\ nikud_preds[2] = 1) =>
        LET c == clean_text[1]
            slot == IF c \in {1488, 1493, 1497} /\ mark_matres_lectionis.some
                    THEN mark_matres_lectionis.val
                    ELSE <<>>
        IN  /\ result = <<c>> \o ExpShin(c, 1) \o slot \o ExpAux(1)
            /\ Chars(result) \cap Chars(MAT_LECT_TOKEN) = {}

C3_Witness ==
    /\ LetterDone
    /\ nikud_preds[2] = 1
    /\ clean_text = <<1493>>
    /\ mark_matres_lectionis = Some(<<1455>>)
    /\ ~stress_preds[2] /\ ~vocal_shva_preds[2] /\ ~prefix_preds[2]
    /\ result = <<1493, 1455>>

\* the span the loop is about to handle covers more than one character
AtMultiCharSpan ==
    /\ pc = "loop"
    /\ idx < Len(offsets)
    /\ Len(Slice(clean_text, offsets[idx + 1][1], offsets[idx + 1][2])) > 1

\* C4: a span of more than one character is copied verbatim (after the gap
\* before it, if any) and the cursor moves to its end; nothing is attached.
C4_MultiCharVerbatim ==
    [][AtMultiCharSpan =>
          LET start == offsets[idx + 1][1]
              end == offsets[idx + 1][2]
              gap == IF start > prev_index
                     THEN Slice(clean_text, prev_index, start) ELSE <<>>
          IN  /\ result' = result \o gap \o Slice(clean_text, start, end)
              /\ prev_index' = end
              /\ idx' = idx + 1
              /\ pc' = "loop"]_vars

\* a two-shin span just copied although its predictions were not the default
C4_Witness ==
    /\ pc = "loop"
    /\ idx = 1
    /\ clean_text = <<1513, 1513>>
    /\ offsets[1] = <<0, 4>>
    /\ nikud_preds[1] = 22
    /\ stress_preds[1]
    /\ prev_index = 4
    /\ result = <<1513, 1513>>

\* C5: a text of digits, punctuation and Latin letters comes back unchanged.
C5_NonHebrewUnchanged ==
    (pc = "done" /\ outcome = "Ok" /\ \A c \in Chars(text) : c < 128)
        => result = text

\* what the claim says remove_nikud deletes: U+0590..U+05C7 and '|'
ClaimDeleted(c) == c \in (1424..1479) \cup {124}

RECURSIVE KeepOthers(_)
KeepOthers(t) ==
    IF t = <<>> THEN <<>>
    ELSE IF ClaimDeleted(Head(t)) THEN KeepOthers(Tail(t))
    ELSE <<Head(t)>> \o KeepOthers(Tail(t))

\* C6: remove_nikud is idempotent, its result holds no character of
\* U+0590..U+05C7 and no '|', and every other character stays, in order.
C6_CleanupIdempotent ==
    pc = "tokenize" =>
        /\ remove_nikud(clean_text) = clean_text
        /\ \A c \in Chars(clean_text) : ~ClaimDeleted(c)
        /\ clean_text = KeepOthers(text)

C6_Witness ==
    /\ pc = "tokenize"
    /\ text = <<1479, 1489>>
    /\ clean_text = <<1489>>

\* the lowest class among the maxima of a row without NaN
LowestArgmax(row) ==
    CHOOSE k \in 0..(Len(row) - 1) :
        /\ \A j \in 1..Len(row) : row[j].v <= row[k + 1].v
        /\ \A j \in 1..k : row[j].v < row[k + 1].v

\* C7: the decoded nikud and shin classes are the argmax of their rows, ties
\* going to the lowest class index.
C7_ArgmaxLowestIndex ==
    pc = "loop" =>
        /\ \A i \in 1..Len(nikud_preds) :
               nikud_preds[i] = LowestArgmax(nikud_logits[i])
        /\ \A i \in 1..Len(shin_preds) :
               shin_preds[i] = LowestArgmax(shin_logits[i])

HasNaN(rows) ==
    \E i \in 1..Len(rows) : \E j \in 1..Len(rows[i]) : rows[i][j].nan

\* C8: a NaN in a nikud or shin row ends the call with an Err value.
C8_NaNIsInferenceError ==
    (pc = "done" /\ (HasNaN(nikud_logits) \/ HasNaN(shin_logits)))
        => outcome = "Err"

\* C9: a decoded class index outside its table ends the call with an Err
\* value.
C9_IndexOutOfRangeIsError ==
    (/\ pc = "done"
     /\ \/ \E i \in 1..Len(nikud_preds) : nikud_preds[i] >= 29
        \/ \E i \in 1..Len(shin_preds) : shin_preds[i] >= 2)
        => outcome = "Err"

RECURSIVE ExpUniform(_, _, _)
ExpUniform(t, K, S) ==
    IF t = <<>> THEN <<>>
    ELSE <<Head(t)>>
         \o (IF Head(t) = 1513 THEN SHIN_CLASSES[S + 1] ELSE <<>>)
         \o NIKUD_CLASSES[K + 1]
         \o ExpUniform(Tail(t), K, S)

\* every row decodes to the same non-placeholder class and shin class, with
\* the three signals false, and every letter is its own span
UniformDone ==
    /\ pc = "done"
    /\ outcome = "Ok"
    /\ \A c \in Chars(clean_text) : is_hebrew_letter(c)
    /\ offsets = CharSpans(clean_text)
    /\ \A i \in 1..Len(offsets) :
          /\ nikud_preds[i] = nikud_preds[1] /\ shin_preds[i] = shin_preds[1]
          /\ ~stress_preds[i] /\ ~vocal_shva_preds[i] /\ ~prefix_preds[i]
    /\ nikud_preds[1] # 1

\* C10: under uniform predictions K, Shin and no signal, the output is every
\* letter followed by one copy of K's mark, one shin dot after each shin and
\* after no other letter, and nothing else.
C10_UniformEndToEnd ==
    UniformDone => result = ExpUniform(clean_text, nikud_preds[1], shin_preds[1])

C10_Witness ==
    /\ UniformDone
    /\ clean_text = <<1513, 1489>>
    /\ nikud_preds[1] = 10
    /\ shin_preds[1] = 0
    /\ result = <<1513, 1473, 1463, 1489, 1463>>

====
